---- MODULE Spec2Model ----
(***************************************************************************)
(* A model of the gioc bean factory: the type registry (btMap, tMap), the  *)
(* three-tier singleton cache (singletonMap, earlyMap, factoryMap), the    *)
(* in-progress set (creatingMap), the processor chain (beanProcessors) and *)
(* the recursive creation algorithm behind GetBean.  Recursion is kept as  *)
(* an explicit call stack per caller, one frame per GetBean invocation.    *)
(***************************************************************************)
EXTENDS Integers, Sequences, FiniteSets, TLC

\* ------------------------------------------------------------------ bounds
\* instances that reflect.New may allocate in one run
MaxInst == 4
\* nested GetBean frames on one caller's stack
MaxDepth == 4

\* --------------------------------------------------------------- constants
\* Go's nil interface value / nil pointer
Nil == 0
Invalid == ""
Singleton == "s"
Prototype == "p"
\* a kind token that is neither "s" nor "p"
OtherKind == "q"
\* the zero reflect.Type read from tMap for a missing key
NoType == "none"

Callers == {1, 2}

\* ------------------------------------------------------------ type universe
\* One field of a struct type: elem is the registered (pointer) type the field
\* can hold, ptr tells a *T field from a T field, di is the presence of the
\* `di` tag and bean its value (the explicit bean name, "" for none).
Field(elem, ptr, di, bean) == [elem |-> elem, ptr |-> ptr, di |-> di, bean |-> bean]

TypeIds == {"A", "B", "Int", "P", "Q"}

\* The cycle of main.go (A holds a *B found by type, B holds a *A found by
\* name; A also refers to itself by name, B also holds a P by value), the non
\* aggregate int, and two structs of package gioc that carry the three
\* BeanProcessor methods: P, whose hooks do what the built-in ones do, and Q,
\* whose processBeforeInstantiation constructs some beans itself.
Types ==
    [t \in TypeIds |->
        CASE t = "A" -> [kind |-> "struct", processor |-> FALSE,
                         fields |-> << Field("B", TRUE, TRUE, ""),
                                       Field("A", TRUE, TRUE, "a") >>]
          [] t = "B" -> [kind |-> "struct", processor |-> FALSE,
                         fields |-> << Field("P", FALSE, TRUE, "x"),
                                       Field("A", TRUE, TRUE, "a") >>]
          [] t = "Int" -> [kind |-> "int", processor |-> FALSE,
                           fields |-> << >>]
          [] t = "P" -> [kind |-> "struct", processor |-> TRUE,
                         fields |-> << >>]
          [] t = "Q" -> [kind |-> "struct", processor |-> TRUE,
                         fields |-> << >>]]

\* The bean names for which processBeforeInstantiation of a processor of type
\* t returns a bean (the processor itself) instead of nil.
Substitutes == [t \in TypeIds |-> IF t = "Q" THEN {"a"} ELSE {}]

BeanNames == {"a", "b", "n", "x"}

\* The classes a caller builds with NewClass: a bean name and a type.
Classes ==
    { [beanName |-> "a", i |-> "A"], [beanName |-> "b", i |-> "B"],
      [beanName |-> "n", i |-> "Int"],
      [beanName |-> "x", i |-> "P"] }

\* The classes of a client that installs construction strategies: two
\* processors of type Q next to the beans a and b.
ClassesShortCircuit ==
    { [beanName |-> "a", i |-> "A"], [beanName |-> "b", i |-> "B"],
      [beanName |-> "x", i |-> "Q"], [beanName |-> "n", i |-> "Q"] }

\* The classes of a client that registers two beans of type B.
ClassesAutowire ==
    { [beanName |-> "a", i |-> "A"], [beanName |-> "b", i |-> "B"],
      [beanName |-> "x", i |-> "B"] }

Kinds == {Singleton, Prototype, OtherKind}

\* ---------------------------------------------------------------- variables
VARIABLES
    btMap,                  \* bean name -> kind, Invalid when absent
    tMap,                   \* bean name -> type, NoType when absent
    tMapNil,                \* tMap is the nil map
    singletonMap,           \* tier 1
    singletonMapNil,        \* singletonMap is the nil map
    earlyMap,               \* tier 2
    factoryMap,             \* tier 3: the instance the producer closes over
    creatingMap,            \* the in-progress set
    beanProcessors,         \* the processor chain
    earlyProxyReferences,   \* AopBeanProcessor's set of handled bean names
    allowEarlyReference,    \* Options
    allowPopulateStructBean,
    heap,                   \* allocated instances: type and field values
    stack,                  \* per caller: the frames of the calls in flight
    result,                 \* per caller: outcome of the last finished call
    active,                 \* the callers that use the factory
    returned,               \* history: bean name -> <<kind, instance>> GetBean returned
    everRegistered,         \* history: names a Register call has accepted
    hookLog,                \* history: <<chain index, instance>> of after hooks run
    wrapCount,              \* history: instance -> times wrapIfNecessary ran
    producerCalls,          \* history: instance -> times its tier-3 producer ran
    firstRegistered         \* history: type -> first bean name registered with it

vars == << btMap, tMap, tMapNil, singletonMap, singletonMapNil, earlyMap,
           factoryMap, creatingMap, beanProcessors, earlyProxyReferences,
           allowEarlyReference, allowPopulateStructBean, heap, stack, result,
           active, returned, everRegistered, hookLog, wrapCount,
           producerCalls, firstRegistered >>

registryVars == << btMap, tMap, tMapNil >>
cacheVars == << singletonMap, singletonMapNil, earlyMap, factoryMap >>
aopVars == << earlyProxyReferences, hookLog, wrapCount, producerCalls >>
optVars == << allowEarlyReference, allowPopulateStructBean, active >>

PopulateBeanProcessor == [kind |-> "Populate", inst |-> Nil]
AopBeanProcessor == [kind |-> "Aop", inst |-> Nil]
initBeanProcessors == << PopulateBeanProcessor, AopBeanProcessor >>

\* The names that some cache tier holds an entry for.
cachedNames ==
    {n \in BeanNames :
        singletonMap[n] # Nil \/ earlyMap[n] # Nil \/ factoryMap[n] # Nil}

\* The record of a caller's current or last call: status "none" while it runs,
\* base and cached are the heap size and the cached names when it started.
Call(op, beanName) ==
    [op |-> op, name |-> beanName, status |-> "none", val |-> Nil,
     base |-> Len(heap), cached |-> cachedNames]

NoResult ==
    [op |-> "none", name |-> "", status |-> "none", val |-> Nil,
     base |-> 0, cached |-> {}]

\* NewBeanFactory: empty maps, the two built-in processors, the options.
NewBeanFactory ==
    /\ btMap = [n \in BeanNames |-> Invalid]
    /\ tMap = [n \in BeanNames |-> NoType]
    /\ tMapNil = FALSE
    /\ singletonMap = [n \in BeanNames |-> Nil]
    /\ singletonMapNil = FALSE
    /\ earlyMap = [n \in BeanNames |-> Nil]
    /\ factoryMap = [n \in BeanNames |-> Nil]
    /\ creatingMap = [n \in BeanNames |-> FALSE]
    /\ beanProcessors = initBeanProcessors
    /\ earlyProxyReferences = {}
    /\ allowEarlyReference \in BOOLEAN
    /\ allowPopulateStructBean = FALSE
    /\ heap = << >>
    /\ stack = [c \in Callers |-> << >>]
    /\ result = [c \in Callers |-> NoResult]
    /\ returned = [n \in BeanNames |-> {}]
    /\ everRegistered = {}
    /\ firstRegistered = [t \in TypeIds |-> ""]
    /\ hookLog = {}
    /\ wrapCount = [i \in 1..MaxInst |-> 0]
    /\ producerCalls = [i \in 1..MaxInst |-> 0]

Init == NewBeanFactory /\ active = {1}

\* ------------------------------------------------------------ pure helpers
\* A faulty kind test that takes prototypes for singletons, kept to show that
\* the freshness property depends on the dispatch by kind.
isSingletonOrPrototype(beanType) == beanType \in {Singleton, Prototype}

isSingleton(beanType) == beanType = Singleton
isPrototype(beanType) == beanType = Prototype
isRegistered(beanName) == tMap[beanName] # NoType
\* A faulty lookup that takes an unknown name for a Singleton, kept to show
\* that the absence returned for unknown names depends on the kind lookup.
getBeanTypeDefaultsSingleton(beanName) ==
    IF btMap[beanName] = Invalid THEN Singleton ELSE btMap[beanName]

getBeanType(beanName) == btMap[beanName]
isBean(t) == Types[t].kind = "struct"

Top(c) == stack[c][Len(stack[c])]
Rest(c) == SubSeq(stack[c], 1, Len(stack[c]) - 1)

\* The panics of the factory.  No function of the repository recovers (the
\* recover of GetBean is commented out, main has none), so a panic leaves
\* every frame of the goroutine and ends the process.
PanicKinds ==
    {"CyclicCreationError", "FieldBeanNotExist", "ReflectPanic", "NilMapWrite"}
Crashed == \E k \in Callers : result[k].status \in PanicKinds

Idle(c) == c \in active /\ stack[c] = << >> /\ ~Crashed
At(c, pc) == c \in active /\ stack[c] # << >> /\ Top(c).pc = pc /\ ~Crashed

Frame(op, beanName, pc) ==
    [op |-> op, name |-> beanName, pc |-> pc, bt |-> Invalid, inst |-> Nil,
     fi |-> 1, target |-> "", ret |-> Nil, res |-> Nil]

\* ------------------------------------------------------- registry operations
\* A faulty Register that records the definition before it checks the kind
\* and the name, kept to show that the frame of a failed Register depends on
\* the order of its checks and writes.
RegisterWritesFirst(beanName, t, beanType) ==
    [status |-> IF ~isSingleton(beanType) /\ ~isPrototype(beanType)
                THEN "InvalidKind"
                ELSE IF isRegistered(beanName) THEN "BeanNameConflict"
                ELSE IF tMapNil THEN "NilMapWrite" ELSE "ok",
     btMap |-> [btMap EXCEPT ![beanName] = beanType],
     tMap |-> IF tMapNil THEN tMap ELSE [tMap EXCEPT ![beanName] = t]]

\* Register: the outcome and the maps it leaves.  Writing into the nil tMap
\* panics after btMap has been written.
Register(beanName, t, beanType) ==
    IF ~isSingleton(beanType) /\ ~isPrototype(beanType)
    THEN [status |-> "InvalidKind", btMap |-> btMap, tMap |-> tMap]
    ELSE IF isRegistered(beanName)
    THEN [status |-> "BeanNameConflict", btMap |-> btMap, tMap |-> tMap]
    ELSE IF tMapNil
    THEN [status |-> "NilMapWrite",
          btMap |-> [btMap EXCEPT ![beanName] = beanType], tMap |-> tMap]
    ELSE [status |-> "ok",
          btMap |-> [btMap EXCEPT ![beanName] = beanType],
          tMap |-> [tMap EXCEPT ![beanName] = t]]

\* getBeanNameWithReflectType ranges over the Go map tMap, whose iteration
\* order is unspecified: any registered name of a matching type can come out.
getBeanNameWithReflectType(field) ==
    LET match == {n \in BeanNames : field.ptr /\ tMap[n] = field.elem}
    IN  IF match = {} THEN {""} ELSE match

\* PopulateBeanProcessor.getFieldBeanName: the set of names it can return.
getFieldBeanName(field) ==
    IF ~field.di
    THEN {""}
    ELSE LET named == IF field.bean = ""
                      THEN getBeanNameWithReflectType(field)
                      ELSE {field.bean}
         IN  {IF n \in BeanNames /\ isRegistered(n) THEN n ELSE "" : n \in named}

\* A faulty resolution that registers the field's target again as a Prototype,
\* kept to show that the definitions GetBean leaves depend on
\* processPropertyValues not writing the registry.
populateRegistryOverwrites(field) ==
    [btMap |-> IF field.bean \in BeanNames
               THEN [btMap EXCEPT ![field.bean] = Prototype]
               ELSE btMap,
     tMap |-> tMap]

\* The registry processPropertyValues leaves after it resolved a field: this
\* revision looks the target up and registers nothing.
populateRegistry(field) == [btMap |-> btMap, tMap |-> tMap]

\* ------------------------------------------------------------ processor hooks
HookState ==
    [epr |-> earlyProxyReferences, log |-> hookLog, wc |-> wrapCount,
     calls |-> producerCalls]

\* AopBeanProcessor.wrapIfNecessary: marks the bean name, hands the bean back.
wrapIfNecessary(beanName, bean, st) ==
    [bean |-> bean,
     st |-> [st EXCEPT !.epr = @ \cup {beanName},
                       !.wc = [@ EXCEPT ![bean] = @ + 1]]]

\* A faulty AOP hook that ignores earlyProxyReferences, kept to show that
\* wrapping once depends on the mark the early-reference path leaves.
processAfterInitializationAlwaysWraps(i, beanName, bean, st) ==
    LET bp == beanProcessors[i]
        seen == [st EXCEPT !.log = @ \cup {<<i, bean>>}]
    IN  CASE bp.kind = "Populate" -> [bean |-> Nil, st |-> seen]
          [] bp.kind = "Aop" -> wrapIfNecessary(beanName, bean, seen)
          [] OTHER -> [bean |-> bean, st |-> seen]

\* processAfterInitialization of the i-th processor of the chain.
processAfterInitialization(i, beanName, bean, st) ==
    LET bp == beanProcessors[i]
        seen == [st EXCEPT !.log = @ \cup {<<i, bean>>}]
    IN  CASE bp.kind = "Populate" -> [bean |-> Nil, st |-> seen]
          [] bp.kind = "Aop" ->
                IF beanName \in seen.epr
                THEN [bean |-> bean, st |-> seen]
                ELSE wrapIfNecessary(beanName, bean, seen)
          [] OTHER -> [bean |-> bean, st |-> seen]

\* The loop shared by initializeBean and the tier-3 producer: the first hook
\* that returns a non-nil bean ends it.
RECURSIVE afterInitializationLoop(_, _, _, _, _)
afterInitializationLoop(i, beanName, wrapBean, bean, st) ==
    IF i > Len(beanProcessors)
    THEN [bean |-> bean, st |-> st]
    ELSE LET r == processAfterInitialization(i, beanName, wrapBean, st)
         IN  IF r.bean # Nil
             THEN r
             ELSE afterInitializationLoop(i + 1, beanName, wrapBean, r.bean, r.st)

\* A faulty initialization that yields nothing, kept to show that the
\* reconciliation depends on the result of the after-initialization step.
initializeBeanYieldsNil(beanName, bean, st) == [bean |-> Nil, st |-> st]

initializeBean(beanName, bean, st) ==
    afterInitializationLoop(1, beanName, bean, bean, st)

\* A faulty producer that yields nothing, kept to show that cycle resolution
\* depends on the early reference.
singletonFactoryYieldsNil(beanName, st) == [bean |-> Nil, st |-> st]

\* The closure addSingletonFactory stores, applied to the instance it captured.
singletonFactory(beanName, st) ==
    afterInitializationLoop(1, beanName, factoryMap[beanName],
                            factoryMap[beanName],
                            [st EXCEPT !.calls[factoryMap[beanName]] = @ + 1])

\* processBeforeInstantiation of the i-th processor of the chain: the
\* built-ins and P return nil, Q returns itself for the names it constructs.
processBeforeInstantiation(i, beanName, t) ==
    LET bp == beanProcessors[i]
    IN  IF bp.kind = "Custom" /\ beanName \in Substitutes[heap[bp.inst].type]
        THEN bp.inst
        ELSE Nil

RECURSIVE resolveBeforeInstantiationFrom(_, _, _)
resolveBeforeInstantiationFrom(i, beanName, t) ==
    IF i > Len(beanProcessors)
    THEN Nil
    ELSE IF processBeforeInstantiation(i, beanName, t) # Nil
         THEN processBeforeInstantiation(i, beanName, t)
         ELSE resolveBeforeInstantiationFrom(i + 1, beanName, t)

\* A faulty resolution that consults the whole chain and keeps what the last
\* hook returned, kept to show that the substitute depends on the loop
\* stopping at the first hook that returns a bean.
resolveBeforeInstantiationKeepsLast(beanName, t) ==
    LET hits == {i \in 1..Len(beanProcessors) :
                    processBeforeInstantiation(i, beanName, t) # Nil}
    IN  IF hits = {}
        THEN Nil
        ELSE processBeforeInstantiation(
                 CHOOSE i \in hits : \A j \in hits : j <= i, beanName, t)

resolveBeforeInstantiation(beanName, t) ==
    resolveBeforeInstantiationFrom(1, beanName, t)

\* ------------------------------------------------------------- cache tiers
\* A faulty lookup that never finds anything, kept to show that singleton
\* identity depends on the cache.
getSingletonMisses(beanName, allowEarly, st) ==
    [bean |-> Nil, earlyMap |-> earlyMap, st |-> st]

\* A faulty lookup that runs the tier-3 producer whenever one is installed,
\* kept to show that invoking it once depends on the tier-2 memo.
getSingletonAlwaysProduces(beanName, allowEarly, st) ==
    IF singletonMap[beanName] # Nil
    THEN [bean |-> singletonMap[beanName], earlyMap |-> earlyMap, st |-> st]
    ELSE IF allowEarly /\ factoryMap[beanName] # Nil
    THEN [bean |-> factoryMap[beanName],
          earlyMap |-> [earlyMap EXCEPT ![beanName] = factoryMap[beanName]],
          st |-> [st EXCEPT !.calls[factoryMap[beanName]] = @ + 1]]
    ELSE [bean |-> earlyMap[beanName], earlyMap |-> earlyMap, st |-> st]

\* A faulty lookup that stops at tier 2, kept to show that answering an
\* in-progress name depends on the tier-3 producer.
getSingletonSkipsProducer(beanName, allowEarly, st) ==
    [bean |-> IF singletonMap[beanName] # Nil THEN singletonMap[beanName]
              ELSE earlyMap[beanName],
     earlyMap |-> earlyMap, st |-> st]

\* getSingleton: tier 1, then tier 2, then (when allowed) the tier-3 producer,
\* whose result is memoized into tier 2.
getSingleton(beanName, allowEarly, st) ==
    IF singletonMap[beanName] # Nil
    THEN [bean |-> singletonMap[beanName], earlyMap |-> earlyMap, st |-> st]
    ELSE IF earlyMap[beanName] = Nil /\ allowEarly /\ factoryMap[beanName] # Nil
    THEN LET r == singletonFactory(beanName, st)
         IN  [bean |-> r.bean,
              earlyMap |-> [earlyMap EXCEPT ![beanName] = r.bean],
              st |-> r.st]
    ELSE [bean |-> earlyMap[beanName], earlyMap |-> earlyMap, st |-> st]

\* A faulty guard that never fires, kept to show that cycle rejection depends
\* on the in-progress set.
createBeforeNeverPanics(beanName, beanType) == FALSE

\* createBefore panics when a singleton name is already in the in-progress set.
createBeforePanics(beanName, beanType) ==
    ~isPrototype(beanType) /\ creatingMap[beanName]

createBefore(cm, beanName, beanType) ==
    IF isPrototype(beanType) THEN cm ELSE [cm EXCEPT ![beanName] = TRUE]

\* A faulty release that leaves the name in the in-progress set, kept to show
\* that repeated fetches depend on createAfter.
createAfterKeepsName(cm, beanName, beanType) == cm

createAfter(cm, beanName, beanType) ==
    IF isPrototype(beanType) THEN cm ELSE [cm EXCEPT ![beanName] = FALSE]

\* A faulty frame test that finds no deferred call, kept to show that what a
\* failed resolution leaves behind depends on createAfter being deferred
\* before the recursion starts.
DeferredNever(f) == FALSE

\* A frame whose createBean has run `defer bc.createAfter(...)` and not returned.
Deferred(f) ==
    f.op = "GetBean" /\ f.pc \in {"populate", "await", "setField", "initialize"}

\* A faulty unwinding that skips the deferred calls, kept to show that the
\* in-progress set of a failed call depends on `defer bc.createAfter(...)`.
unwindSkipsDeferred(cm, stk) == cm

\* A panic runs the deferred createAfter of every frame it unwinds.
RECURSIVE unwind(_, _)
unwind(cm, stk) ==
    IF stk = << >>
    THEN cm
    ELSE LET f == stk[Len(stk)]
         IN  unwind(IF Deferred(f) THEN createAfter(cm, f.name, f.bt) ELSE cm,
                    SubSeq(stk, 1, Len(stk) - 1))

\* A faulty scan that takes value fields as well, kept to show that skipping
\* them depends on the allowPopulateStructBean test.
RECURSIVE nextFieldTakesValues(_, _)
nextFieldTakesValues(t, fi) ==
    IF fi > Len(Types[t].fields)
    THEN 0
    ELSE IF ~isBean(Types[t].fields[fi].elem)
         THEN nextFieldTakesValues(t, fi + 1)
         ELSE fi

\* The index of the first field at or after fi that processPropertyValues does
\* not skip, 0 when there is none.
RECURSIVE nextField(_, _)
nextField(t, fi) ==
    IF fi > Len(Types[t].fields)
    THEN 0
    ELSE LET field == Types[t].fields[fi]
         IN  IF (~field.ptr /\ ~allowPopulateStructBean) \/ ~isBean(field.elem)
             THEN nextField(t, fi + 1)
             ELSE fi

\* ------------------------------------------------------ returning and panics
\* The value a finished GetBean hands to the frame below it.
deliver(rest, val) ==
    IF rest = << >>
    THEN rest
    ELSE [rest EXCEPT ![Len(rest)].ret = val,
                      ![Len(rest)].pc = IF @ = "await" THEN "setField"
                                        ELSE "checkProcessor"]

\* GetBean of the top frame returns val.
Return(c, val) ==
    /\ stack' = [stack EXCEPT ![c] = deliver(Rest(c), val)]
    /\ result' = IF Len(stack[c]) = 1
                 THEN [result EXCEPT ![c].status = "value", ![c].val = val]
                 ELSE result
    /\ returned' = IF val = Nil THEN returned
                   ELSE [returned EXCEPT ![Top(c).name] =
                            @ \cup {<<getBeanType(Top(c).name), val>>}]

\* A panic runs the deferred calls of every frame on the caller's stack and
\* escapes GetBean.
Panic(c, err, cm) ==
    /\ stack' = [stack EXCEPT ![c] = << >>]
    /\ result' = [result EXCEPT ![c].status = err]
    /\ creatingMap' = unwind(cm, stack[c])
    /\ UNCHANGED returned

\* ------------------------------------------------------------------ actions
\* The first name registered with each type once Register has answered.
firstRegisteredAfter(status, class) ==
    IF status = "ok" /\ firstRegistered[class.i] = ""
    THEN [firstRegistered EXCEPT ![class.i] = class.beanName]
    ELSE firstRegistered

\* IOC.Register / BeanBeanFactory.Register called by a client with one of
\* the given classes.
CallRegisterOf(c, classes) ==
    /\ Idle(c)
    /\ \E class \in classes, beanType \in Kinds :
         LET r == Register(class.beanName, class.i, beanType)
         IN  /\ btMap' = r.btMap
             /\ tMap' = r.tMap
             /\ result' = [result EXCEPT ![c] =
                              [Call("Register", class.beanName) EXCEPT
                                  !.status = r.status]]
             /\ everRegistered' = IF r.status = "ok"
                                  THEN everRegistered \cup {class.beanName}
                                  ELSE everRegistered
             /\ firstRegistered' = firstRegisteredAfter(r.status, class)
    /\ UNCHANGED << tMapNil, cacheVars, creatingMap, beanProcessors, aopVars,
                    optVars, heap, stack, returned >>

CallRegister(c) == CallRegisterOf(c, Classes)

\* IOC.GetBean / BeanBeanFactory.GetBean called by a client.
CallGetBean(c) ==
    /\ Idle(c)
    /\ \E beanName \in BeanNames :
         /\ stack' = [stack EXCEPT ![c] = << Frame("GetBean", beanName, "GetBean") >>]
         /\ result' = [result EXCEPT ![c] = Call("GetBean", beanName)]
    /\ UNCHANGED << registryVars, cacheVars, creatingMap, beanProcessors, aopVars,
                    optVars, heap, returned, everRegistered, firstRegistered >>

\* GetBean up to the cache lookup of SingletonContainer.Get.
GetBean(c) ==
    /\ At(c, "GetBean")
    /\ LET f == Top(c)
           beanType == getBeanType(f.name)
           g == getSingleton(f.name, allowEarlyReference, HookState)
       IN  IF beanType = Invalid
           THEN /\ Return(c, Nil)
                /\ UNCHANGED << earlyMap, aopVars >>
           ELSE IF isSingleton(beanType) /\ g.bean # Nil
           THEN /\ Return(c, g.bean)
                /\ earlyMap' = g.earlyMap
                /\ earlyProxyReferences' = g.st.epr
                /\ hookLog' = g.st.log
                /\ wrapCount' = g.st.wc
                /\ producerCalls' = g.st.calls
           ELSE /\ stack' = [stack EXCEPT ![c][Len(stack[c])] =
                                [f EXCEPT !.pc = "createBean", !.bt = beanType]]
                /\ UNCHANGED << earlyMap, aopVars, result, returned >>
    /\ UNCHANGED << registryVars, singletonMap, singletonMapNil, factoryMap,
                    creatingMap, beanProcessors, optVars, everRegistered, firstRegistered, heap >>

\* createBean up to the start of populateBean: createBefore, the type lookup,
\* resolveBeforeInstantiation, and doCreateBean's allocation and early exposure.
CreateBean(c) ==
    /\ At(c, "createBean")
    /\ LET f == Top(c)
           t == tMap[f.name]
           cm == createBefore(creatingMap, f.name, f.bt)
           sub == resolveBeforeInstantiation(f.name, t)
           id == Len(heap) + 1
       IN  IF createBeforePanics(f.name, f.bt)
           THEN /\ Panic(c, "CyclicCreationError", creatingMap)
                /\ UNCHANGED << heap, factoryMap >>
           ELSE IF t = NoType
           THEN /\ Return(c, Nil)
                /\ creatingMap' = createAfter(cm, f.name, f.bt)
                /\ UNCHANGED << heap, factoryMap >>
           ELSE IF sub # Nil
           THEN /\ creatingMap' = createAfter(cm, f.name, f.bt)
                /\ IF isSingleton(f.bt)
                   THEN /\ stack' = [stack EXCEPT ![c][Len(stack[c])] =
                                        [f EXCEPT !.pc = "addSingleton", !.res = sub]]
                        /\ UNCHANGED << result, returned >>
                   ELSE Return(c, sub)
                /\ UNCHANGED << heap, factoryMap >>
           ELSE IF ~isBean(t)
           THEN /\ Return(c, Nil)
                /\ creatingMap' = createAfter(cm, f.name, f.bt)
                /\ UNCHANGED << heap, factoryMap >>
           ELSE /\ id <= MaxInst
                /\ heap' = Append(heap, [type |-> t,
                                         f |-> [i \in 1..Len(Types[t].fields) |-> Nil]])
                /\ factoryMap' = IF allowEarlyReference
                                 THEN [factoryMap EXCEPT ![f.name] = id]
                                 ELSE factoryMap
                /\ creatingMap' = cm
                /\ stack' = [stack EXCEPT ![c][Len(stack[c])] =
                                [f EXCEPT !.pc = "populate", !.inst = id, !.fi = 1]]
                /\ UNCHANGED << result, returned >>
    /\ UNCHANGED << registryVars, singletonMap, singletonMapNil, earlyMap,
                    beanProcessors, aopVars, optVars, everRegistered, firstRegistered >>

\* populateBean: PopulateBeanProcessor.processPropertyValues up to the GetBean
\* call for the next injected field (AopBeanProcessor's and P's are empty).
PopulateBean(c) ==
    /\ At(c, "populate")
    /\ LET f == Top(c)
           t == heap[f.inst].type
           i == nextField(t, f.fi)
       IN  IF i = 0
           THEN /\ stack' = [stack EXCEPT ![c][Len(stack[c])] =
                                [f EXCEPT !.pc = "initialize"]]
                /\ UNCHANGED << btMap, tMap, creatingMap, result, returned >>
           ELSE /\ btMap' = populateRegistry(Types[t].fields[i]).btMap
                /\ tMap' = populateRegistry(Types[t].fields[i]).tMap
                /\ \E fieldBeanName \in getFieldBeanName(Types[t].fields[i]) :
                     IF fieldBeanName = ""
                     THEN Panic(c, "FieldBeanNotExist", creatingMap)
                     ELSE /\ Len(stack[c]) < MaxDepth
                          /\ stack' = [stack EXCEPT ![c] =
                                Append([stack[c] EXCEPT ![Len(stack[c])] =
                                           [f EXCEPT !.pc = "await", !.fi = i,
                                                     !.target = fieldBeanName]],
                                       Frame("GetBean", fieldBeanName, "GetBean"))]
                          /\ UNCHANGED << creatingMap, result, returned >>
    /\ UNCHANGED << tMapNil, cacheVars, beanProcessors, aopVars, optVars,
                    everRegistered, firstRegistered, heap >>

\* processPropertyValues after GetBean returned: reflect sets the field, and
\* panics on a nil bean or a bean of another type.
SetField(c) ==
    /\ At(c, "setField")
    /\ LET f == Top(c)
           t == heap[f.inst].type
           field == Types[t].fields[f.fi]
       IN  IF f.ret = Nil \/ heap[f.ret].type # field.elem
           THEN /\ Panic(c, "ReflectPanic", creatingMap)
                /\ UNCHANGED heap
           ELSE /\ heap' = [heap EXCEPT ![f.inst].f[f.fi] = f.ret]
                /\ stack' = [stack EXCEPT ![c][Len(stack[c])] =
                                [f EXCEPT !.pc = "populate", !.fi = f.fi + 1,
                                          !.ret = Nil]]
                /\ UNCHANGED << creatingMap, result, returned >>
    /\ UNCHANGED << registryVars, cacheVars, beanProcessors, aopVars, optVars, everRegistered, firstRegistered >>

\* The rest of doCreateBean and the return of createBean: initializeBean, the
\* choice between its result and the early reference, the deferred createAfter.
InitializeBean(c) ==
    /\ At(c, "initialize")
    /\ LET f == Top(c)
           r == initializeBean(f.name, f.inst, HookState)
           g == getSingleton(f.name, FALSE, r.st)
           resBean == IF allowEarlyReference /\ g.bean # Nil THEN g.bean ELSE r.bean
       IN  /\ earlyProxyReferences' = r.st.epr
           /\ hookLog' = r.st.log
           /\ wrapCount' = r.st.wc
           /\ producerCalls' = r.st.calls
           /\ creatingMap' = createAfter(creatingMap, f.name, f.bt)
           /\ IF isSingleton(f.bt)
              THEN /\ stack' = [stack EXCEPT ![c][Len(stack[c])] =
                                   [f EXCEPT !.pc = "addSingleton", !.res = resBean]]
                   /\ UNCHANGED << result, returned >>
              ELSE Return(c, resBean)
    /\ UNCHANGED << registryVars, cacheVars, beanProcessors, optVars, everRegistered, firstRegistered, heap >>

\* A faulty commit that leaves tiers 2 and 3 as they are, kept to show that
\* the exclusivity of tier 1 depends on addSingleton clearing them.
addSingletonKeepsTiers(beanName, bean) ==
    [earlyMap |-> earlyMap, factoryMap |-> factoryMap,
     singletonMap |-> [singletonMap EXCEPT ![beanName] = bean]]

\* A faulty commit that replaces tier 1 by the one bean, kept to show that the
\* closure of the tier-1 object graph depends on earlier commits staying.
addSingletonReplacesTierOne(beanName, bean) ==
    [earlyMap |-> [earlyMap EXCEPT ![beanName] = Nil],
     factoryMap |-> [factoryMap EXCEPT ![beanName] = Nil],
     singletonMap |-> [n \in BeanNames |-> IF n = beanName THEN bean ELSE Nil]]

\* addSingleton: the three maps it leaves (the write into a nil singletonMap
\* panics after the other two were cleared).
addSingleton(beanName, bean) ==
    [earlyMap |-> [earlyMap EXCEPT ![beanName] = Nil],
     factoryMap |-> [factoryMap EXCEPT ![beanName] = Nil],
     singletonMap |-> [singletonMap EXCEPT ![beanName] = bean]]

\* SingletonContainer.Get after createBean returned: addSingleton and return.
AddSingleton(c) ==
    /\ At(c, "addSingleton")
    /\ LET f == Top(c)
           m == addSingleton(f.name, f.res)
       IN  IF f.res = Nil
           THEN /\ Return(c, Nil)
                /\ UNCHANGED << singletonMap, earlyMap, factoryMap, creatingMap >>
           ELSE /\ earlyMap' = m.earlyMap
                /\ factoryMap' = m.factoryMap
                /\ IF singletonMapNil
                   THEN /\ Panic(c, "NilMapWrite", creatingMap)
                        /\ UNCHANGED singletonMap
                   ELSE /\ singletonMap' = m.singletonMap
                        /\ Return(c, f.res)
                        /\ UNCHANGED creatingMap
    /\ UNCHANGED << registryVars, singletonMapNil, beanProcessors, aopVars,
                    optVars, everRegistered, firstRegistered, heap >>

\* RegisterBeanProcessor up to its GetBean call.
RegisterBeanProcessorOf(c, classes) ==
    /\ Idle(c)
    /\ \E class \in classes :
         LET r == Register(class.beanName, class.i, Singleton)
         IN  /\ btMap' = r.btMap
             /\ tMap' = r.tMap
             /\ IF r.status = "ok"
                THEN /\ stack' = [stack EXCEPT ![c] =
                           << Frame("RegisterBeanProcessor", class.beanName, "awaitBean"),
                              Frame("GetBean", class.beanName, "GetBean") >>]
                     /\ result' = [result EXCEPT ![c] =
                           Call("RegisterBeanProcessor", class.beanName)]
                ELSE /\ result' = [result EXCEPT ![c] =
                           [Call("RegisterBeanProcessor", class.beanName) EXCEPT
                               !.status = r.status]]
                     /\ UNCHANGED stack
             /\ everRegistered' = IF r.status = "ok"
                                  THEN everRegistered \cup {class.beanName}
                                  ELSE everRegistered
             /\ firstRegistered' = firstRegisteredAfter(r.status, class)
    /\ UNCHANGED << tMapNil, cacheVars, creatingMap, beanProcessors, aopVars,
                    optVars, heap, returned >>

RegisterBeanProcessor(c) == RegisterBeanProcessorOf(c, Classes)

\* The BeanProcessor type assertion on the constructed bean.
isBeanProcessor(bpBean) == bpBean # Nil /\ Types[heap[bpBean].type].processor

\* RegisterBeanProcessor after GetBean returned: admit the bean to the chain or
\* undo the registration.
AdmitBeanProcessor(c) ==
    /\ At(c, "checkProcessor")
    /\ LET f == Top(c)
       IN  IF isBeanProcessor(f.ret)
           THEN /\ beanProcessors' = Append(beanProcessors,
                                            [kind |-> "Custom", inst |-> f.ret])
                /\ result' = [result EXCEPT ![c].status = "ok", ![c].val = f.ret]
                /\ UNCHANGED << btMap, tMap, tMapNil, singletonMap, singletonMapNil >>
           ELSE /\ tMap' = [n \in BeanNames |-> NoType]
                /\ tMapNil' = TRUE
                /\ singletonMap' = [n \in BeanNames |-> Nil]
                /\ singletonMapNil' = TRUE
                /\ btMap' = [btMap EXCEPT ![f.name] = Invalid]
                /\ result' = [result EXCEPT ![c].status = "CapabilityViolation"]
                /\ UNCHANGED beanProcessors
    /\ stack' = [stack EXCEPT ![c] = << >>]
    /\ UNCHANGED << earlyMap, factoryMap, creatingMap, aopVars, optVars, heap,
                    returned, everRegistered, firstRegistered >>

Next ==
    \E c \in Callers :
        \/ CallRegister(c)
        \/ CallGetBean(c)
        \/ GetBean(c)
        \/ CreateBean(c)
        \/ PopulateBean(c)
        \/ SetField(c)
        \/ InitializeBean(c)
        \/ AddSingleton(c)
        \/ RegisterBeanProcessor(c)
        \/ AdmitBeanProcessor(c)

Spec == Init /\ [][Next]_vars

\* ------------------------------------------------------------------ properties
\* The last finished or running call of caller c.
Finished(c, op) == result[c].op = op /\ result[c].status # "none"

\* a and b are registered as the Singleton cycle of main.go.
CycleRegistered ==
    /\ btMap["a"] = Singleton /\ tMap["a"] = "A"
    /\ btMap["b"] = Singleton /\ tMap["b"] = "B"

\* The instances of type t allocated so far.
InstancesOf(t) == {i \in 1..Len(heap) : heap[i].type = t}

\* The step in which the GetBean on top of caller c's stack returns to its
\* caller, and the value it returns.
GetBeanReturns(c) ==
    /\ stack[c] # << >>
    /\ Top(c).op = "GetBean"
    /\ Len(stack'[c]) = Len(stack[c]) - 1
    /\ result'[c].status \notin PanicKinds

ReturnValue(c) ==
    IF Len(stack[c]) = 1 THEN result'[c].val ELSE stack'[c][Len(stack'[c])].ret

\* C1. Singleton identity: over the lifetime of a factory every GetBean on a
\* Singleton name that returns an instance returns the same instance.
SingletonIdentity ==
    \A n \in BeanNames :
        Cardinality({p \in returned[n] : p[1] = Singleton}) <= 1

\* C1 case: a top-level GetBean on a Singleton name that was already cached
\* when the call began has returned the cached instance.
SingletonFetchedAgain ==
    \E c \in Callers :
        /\ Finished(c, "GetBean")
        /\ result[c].status = "value"
        /\ result[c].val # Nil
        /\ btMap[result[c].name] = Singleton
        /\ result[c].name \in result[c].cached
        /\ singletonMap[result[c].name] = result[c].val

\* C2. Cycle resolution: with allowEarlyReference and the Singleton cycle a <-> b
\* registered, a finished GetBean("a") has returned an instance a whose a.B.A is
\* a itself, and one A and one B have been allocated, both during the call
\* when a was not cached before.
CycleResolution ==
    \A c \in Callers :
        (Finished(c, "GetBean") /\ result[c].name = "a"
            /\ allowEarlyReference /\ CycleRegistered)
        => /\ result[c].status = "value"
           /\ result[c].val # Nil
           /\ heap[result[c].val].type = "A"
           /\ heap[result[c].val].f[1] # Nil
           /\ heap[heap[result[c].val].f[1]].type = "B"
           /\ heap[heap[result[c].val].f[1]].f[2] = result[c].val
           /\ Cardinality(InstancesOf("A")) = 1
           /\ Cardinality(InstancesOf("B")) = 1
           /\ "a" \notin result[c].cached => Len(heap) = result[c].base + 2

\* C2 case: a GetBean("a") that had to construct the cycle has finished.
CycleResolved ==
    \E c \in Callers :
        /\ Finished(c, "GetBean") /\ result[c].name = "a"
        /\ allowEarlyReference /\ CycleRegistered
        /\ "a" \notin result[c].cached
        /\ result[c].val # Nil
        /\ heap[heap[result[c].val].f[1]].f[2] = result[c].val

\* C3. Cycle rejection: without allowEarlyReference and with the Singleton cycle
\* a <-> b registered, GetBean("a") never nests deeper than a -> b -> a, ends in
\* CyclicCreationError with no instance returned, and no cache tier holds an
\* entry for a or b.
CycleRejection ==
    (~allowEarlyReference /\ CycleRegistered)
    => /\ \A n \in {"a", "b"} :
            singletonMap[n] = Nil /\ earlyMap[n] = Nil /\ factoryMap[n] = Nil
       /\ \A c \in Callers :
            (result[c].op = "GetBean" /\ result[c].name = "a")
            => /\ Len(stack[c]) <= 3
               /\ result[c].status \in {"none", "CyclicCreationError"}
               /\ result[c].val = Nil

\* C3 case: a GetBean("a") on the cycle has ended in CyclicCreationError.
CycleRejected ==
    \E c \in Callers :
        /\ Finished(c, "GetBean") /\ result[c].name = "a"
        /\ ~allowEarlyReference /\ CycleRegistered
        /\ result[c].status = "CyclicCreationError"

\* C4. A CyclicCreationError is recovered at the top-level GetBean: the call
\* returns absence and no failure escapes GetBean.
CyclicErrorRecovered ==
    \A c \in Callers :
        result[c].op = "GetBean" => result[c].status # "CyclicCreationError"

\* C5. Prototype freshness: whenever a GetBean on a Prototype name returns an
\* instance, that instance was not returned by an earlier GetBean of the name
\* and is not held in a field of any bean.
PrototypeFreshness ==
    [][\A c \in Callers :
          (GetBeanReturns(c) /\ getBeanType(Top(c).name) = Prototype
              /\ ReturnValue(c) # Nil)
          => /\ \A p \in returned[Top(c).name] : p[2] # ReturnValue(c)
             /\ \A i \in 1..Len(heap) : \A k \in DOMAIN heap[i].f :
                    heap[i].f[k] # ReturnValue(c)]_vars

\* C5 case: GetBean on one Prototype name has returned two instances.
PrototypeFetchedTwice ==
    \E n \in BeanNames :
        /\ btMap[n] = Prototype
        /\ Cardinality({p \in returned[n] : p[1] = Prototype}) >= 2

\* C6. GetBean on a Prototype name leaves the three tiers as they were for
\* that name, and no tier holds the returned instance.
PrototypeLeavesTiersAlone ==
    \A c \in Callers :
        (Finished(c, "GetBean") /\ result[c].status = "value"
            /\ result[c].val # Nil /\ btMap[result[c].name] = Prototype)
        => /\ result[c].name \in cachedNames <=> result[c].name \in result[c].cached
           /\ \A n \in BeanNames :
                /\ singletonMap[n] # result[c].val
                /\ earlyMap[n] # result[c].val
                /\ factoryMap[n] # result[c].val

\* C7. A processor registration that fails with CapabilityViolation removes
\* the definition of its own name and nothing else: the definitions and the
\* tier-1 entries of the other names and the processor chain stay as they are.
FailedRegistrationAtomic ==
    [][\A c \in Callers :
          (At(c, "checkProcessor") /\ result'[c].status = "CapabilityViolation")
          => /\ \A n \in BeanNames \ {Top(c).name} :
                    /\ tMap'[n] = tMap[n]
                    /\ btMap'[n] = btMap[n]
                    /\ singletonMap'[n] = singletonMap[n]
             /\ tMapNil' = tMapNil
             /\ singletonMapNil' = singletonMapNil
             /\ beanProcessors' = beanProcessors]_vars

\* C8. A custom processor is appended after the two built-ins, and its
\* after-initialization hook has run on every bean that a GetBean call begun
\* after its admission constructed and returned.
CustomHookInvoked ==
    /\ SubSeq(beanProcessors, 1, 2) = initBeanProcessors
    /\ \A c \in Callers : \A i \in 3..Len(beanProcessors) :
          (/\ Finished(c, "GetBean")
           /\ result[c].status = "value"
           /\ result[c].val > result[c].base
           /\ beanProcessors[i].kind = "Custom"
           /\ beanProcessors[i].inst <= result[c].base)
          => <<i, result[c].val>> \in hookLog

\* C9. No re-registration: a Register call on a name that an earlier Register
\* accepted is refused (BeanNameConflict, or InvalidKind when the kind is bad).
NoReRegistration ==
    [][\A c \in Callers :
          (/\ Idle(c)
           /\ stack'[c] = << >>
           /\ result'[c].op = "Register"
           /\ result'[c] # result[c] \/ btMap' # btMap
           /\ result'[c].name \in everRegistered)
          => result'[c].status \in {"BeanNameConflict", "InvalidKind"}]_vars

\* C10. GetBean on a name registered as Singleton or Prototype with a struct
\* type returns an instance of that type.
RegisteredBeanIsBuilt ==
    \A c \in Callers :
        (/\ Finished(c, "GetBean")
         /\ isRegistered(result[c].name)
         /\ isBean(tMap[result[c].name])
         /\ btMap[result[c].name] \in {Singleton, Prototype})
        => /\ result[c].status = "value"
           /\ result[c].val # Nil
           /\ heap[result[c].val].type = tMap[result[c].name]

\* C11. Tier 2 and tier 3 never both hold an entry for the same bean name:
\* once the tier-3 producer has run and its result sits in tier 2, tier 3 has
\* no entry for the name.
EarlyTiersExclusive ==
    \A n \in BeanNames : ~(earlyMap[n] # Nil /\ factoryMap[n] # Nil)

\* C12. Whenever tier 1 holds an instance for a bean name, tier 2 and tier 3
\* hold no entry for it.
CommittedTierExclusive ==
    \A n \in BeanNames :
        singletonMap[n] # Nil => earlyMap[n] = Nil /\ factoryMap[n] = Nil

\* C12 case: a Singleton whose early reference was taken from tier 3 (it sits
\* in a field of another bean) has been committed to tier 1.
CommittedAfterEarlyUse ==
    \E n \in BeanNames :
        /\ allowEarlyReference
        /\ singletonMap[n] # Nil
        /\ n \in earlyProxyReferences
        /\ \E i \in 1..Len(heap) : \E k \in DOMAIN heap[i].f :
              /\ heap[i].f[k] = singletonMap[n]
              /\ heap[singletonMap[n]].f # << >>
              /\ \E j \in DOMAIN heap[singletonMap[n]].f :
                    heap[singletonMap[n]].f[j] = i

\* The GetBean invocations nested on caller c's stack.
GetBeanDepth(c) ==
    Cardinality({i \in 1..Len(stack[c]) : stack[c][i].op = "GetBean"})

\* C13. Termination: GetBean never recurses without bound.  A resolution that
\* ends visits each registered name at most once as a construction and once
\* more as a lookup, so its nesting never exceeds the number of registered
\* names plus one.
RecursionBounded ==
    \A c \in Callers :
        GetBeanDepth(c) <= Cardinality({n \in BeanNames : btMap[n] # Invalid}) + 1

\* Two goroutines share one factory; Go interleaves their calls at will, the
\* factory takes no lock.
\* main has registered classes with valid kinds before it starts the
\* goroutines: any registry that successful Register calls can have built.
Registries == [BeanNames -> {Invalid, Singleton, Prototype}]

ClassType(n) == (CHOOSE class \in Classes : class.beanName = n).i

InitConcurrent ==
    /\ \E r \in Registries :
         /\ btMap = r
         /\ tMap = [n \in BeanNames |-> IF r[n] = Invalid THEN NoType
                                        ELSE ClassType(n)]
         /\ everRegistered = {n \in BeanNames : r[n] # Invalid}
         /\ firstRegistered =
               [t \in TypeIds |->
                   IF \E n \in BeanNames : r[n] # Invalid /\ ClassType(n) = t
                   THEN CHOOSE n \in BeanNames : r[n] # Invalid /\ ClassType(n) = t
                   ELSE ""]
    /\ tMapNil = FALSE
    /\ singletonMap = [n \in BeanNames |-> Nil]
    /\ singletonMapNil = FALSE
    /\ earlyMap = [n \in BeanNames |-> Nil]
    /\ factoryMap = [n \in BeanNames |-> Nil]
    /\ creatingMap = [n \in BeanNames |-> FALSE]
    /\ beanProcessors = initBeanProcessors
    /\ earlyProxyReferences = {}
    /\ allowEarlyReference \in BOOLEAN
    /\ allowPopulateStructBean = FALSE
    /\ heap = << >>
    /\ stack = [c \in Callers |-> << >>]
    /\ result = [c \in Callers |-> NoResult]
    /\ returned = [n \in BeanNames |-> {}]
    /\ hookLog = {}
    /\ wrapCount = [i \in 1..MaxInst |-> 0]
    /\ producerCalls = [i \in 1..MaxInst |-> 0]
    /\ active = Callers

\* A goroutine's body is one GetBean call.
GoGetBean(c) == result[c].op = "none" /\ CallGetBean(c)

NextConcurrent ==
    \E c \in Callers :
        \/ GoGetBean(c)
        \/ GetBean(c)
        \/ CreateBean(c)
        \/ PopulateBean(c)
        \/ SetField(c)
        \/ InitializeBean(c)
        \/ AddSingleton(c)

SpecConcurrent == InitConcurrent /\ [][NextConcurrent]_vars

\* C14. Concurrent first-time construction is serialized: for a Singleton
\* name at most one instance is ever allocated, and every caller receives
\* that instance.
ConstructionSerialized ==
    \A n \in BeanNames :
        (btMap[n] = Singleton /\ isRegistered(n))
        => /\ Cardinality(InstancesOf(tMap[n])) <= 1
           /\ \A c \in Callers :
                (Finished(c, "GetBean") /\ result[c].name = n
                    /\ result[c].val # Nil)
                => InstancesOf(tMap[n]) = {result[c].val}

\* C15. Tier 1 stability: an instance that tier 1 holds for a name is never
\* replaced and never removed by any later call.
TierOneStable ==
    [][\A n \in BeanNames :
          singletonMap[n] # Nil => singletonMap'[n] = singletonMap[n]]_vars

\* C16. A top-level GetBean on a name that no Register call ever accepted
\* returns absence in one step, raises nothing, and leaves the registry, the
\* three tiers, the in-progress set and the processor chain unchanged.
UnknownNameAbsent ==
    [][\A c \in Callers :
          (At(c, "GetBean") /\ Len(stack[c]) = 1
              /\ Top(c).name \notin everRegistered)
          => /\ stack'[c] = << >>
             /\ result'[c].status = "value"
             /\ result'[c].val = Nil
             /\ UNCHANGED << registryVars, cacheVars, creatingMap,
                             beanProcessors, heap >>]_vars

\* C16 case: a GetBean on a never registered name has finished, in a factory
\* that holds registered and cached beans.
UnknownNameFetched ==
    \E c \in Callers :
        /\ Finished(c, "GetBean")
        /\ result[c].name \notin everRegistered
        /\ result[c].status = "value"
        /\ result[c].val = Nil
        /\ everRegistered # {}
        /\ cachedNames # {}

\* C17. InvalidShape: for a registered name whose type is not a struct, no
\* tier ever holds an entry, the name is never left in the in-progress set,
\* and every finished GetBean on it, the first and any later one, has
\* returned absence and raised nothing.
InvalidShapeAbsent ==
    \A n \in BeanNames :
        (isRegistered(n) /\ ~isBean(tMap[n]))
        => /\ singletonMap[n] = Nil /\ earlyMap[n] = Nil /\ factoryMap[n] = Nil
           /\ ~creatingMap[n]
           /\ \A c \in Callers :
                (Finished(c, "GetBean") /\ result[c].name = n)
                => result[c].status = "value" /\ result[c].val = Nil

\* C17 case: a GetBean on a registered Singleton of a non-struct type has
\* finished.
InvalidShapeFetched ==
    \E c \in Callers :
        /\ Finished(c, "GetBean")
        /\ isRegistered(result[c].name)
        /\ ~isBean(tMap[result[c].name])
        /\ btMap[result[c].name] = Singleton
        /\ result[c].val = Nil

\* C18. A Register call that fails with InvalidKind or BeanNameConflict leaves
\* the registry as it was (the registered names, their types and kinds) and
\* constructs no instance.
FailedRegisterFrame ==
    [][\A c \in Callers :
          (/\ Idle(c)
           /\ result'[c].op = "Register"
           /\ result'[c].status \in {"InvalidKind", "BeanNameConflict"})
          => UNCHANGED << btMap, tMap, tMapNil, heap, everRegistered >>]_vars

\* C18 case: a Register call on a registered name has failed with
\* BeanNameConflict in a registry that holds a Singleton and a Prototype.
RegisterRefused ==
    \E c \in Callers :
        /\ result[c].op = "Register"
        /\ result[c].status = "BeanNameConflict"
        /\ isRegistered(result[c].name)
        /\ \E n \in BeanNames : btMap[n] = Singleton
        /\ \E n \in BeanNames : btMap[n] = Prototype

\* Every registered bean is a Singleton.
AllSingletons == \A n \in BeanNames : btMap[n] \in {Invalid, Singleton}

\* C19. With allowEarlyReference and only Singleton beans registered, a
\* GetBean that reaches a name under construction is answered from tier 2 or
\* tier 3: no CyclicCreationError is raised, no name is under construction
\* twice on a resolution path, and no second instance of a bean is allocated.
EarlyReferenceAnswers ==
    (allowEarlyReference /\ AllSingletons)
    => /\ \A c \in Callers :
            /\ result[c].status # "CyclicCreationError"
            /\ \A i, j \in 1..Len(stack[c]) :
                 (i < j /\ stack[c][i].inst # Nil /\ stack[c][j].inst # Nil)
                 => stack[c][i].name # stack[c][j].name
       /\ \A n \in BeanNames :
            isRegistered(n) => Cardinality(InstancesOf(tMap[n])) <= 1

\* C19 case: during a resolution over Singletons a name that is still under
\* construction has been answered with its early reference.
EarlyReferenceAnswered ==
    /\ allowEarlyReference /\ AllSingletons
    /\ \E n \in BeanNames :
         /\ creatingMap[n]
         /\ earlyMap[n] # Nil
         /\ \E i \in 1..Len(heap) : \E k \in DOMAIN heap[i].f :
               heap[i].f[k] = earlyMap[n]

\* C20. Reconciliation: with allowEarlyReference, when the construction of a
\* Singleton finishes, the instance it hands to the commit is the tier-2
\* value if the early reference was consumed and otherwise the result of the
\* after-initialization step (the constructed instance, which every hook of
\* the chain hands back); that instance is what tier 1 receives, and every
\* field that holds a bean of this type holds that same instance.
Reconciliation ==
    [][\A c \in Callers :
          /\ (At(c, "initialize") /\ Top(c).bt = Singleton
                 /\ allowEarlyReference)
             => LET res == stack'[c][Len(stack[c])].res
                IN  /\ res = IF earlyMap[Top(c).name] # Nil
                             THEN earlyMap[Top(c).name]
                             ELSE Top(c).inst
                    /\ \A i \in 1..Len(heap) : \A k \in DOMAIN heap[i].f :
                          (heap[i].f[k] # Nil
                              /\ heap[heap[i].f[k]].type = tMap[Top(c).name])
                          => heap[i].f[k] = res
          /\ (At(c, "addSingleton") /\ Top(c).res # Nil /\ allowEarlyReference
                 /\ ~Crashed')
             => /\ singletonMap'[Top(c).name] = Top(c).res
                /\ ReturnValue(c) = Top(c).res]_vars

\* C20 case: a Singleton whose early reference was consumed is about to be
\* committed with the tier-2 value.
ReconciledWithEarly ==
    \E c \in Callers :
        /\ At(c, "addSingleton")
        /\ allowEarlyReference
        /\ earlyMap[Top(c).name] # Nil
        /\ Top(c).res = earlyMap[Top(c).name]

\* C21. The tier-3 producer installed for a construction is invoked at most
\* once: the first re-entrant lookup invokes it and memoizes its result in
\* tier 2, later lookups before the commit take the tier-2 value.
ProducerInvokedOnce ==
    /\ \A i \in 1..Len(heap) : producerCalls[i] <= 1
    /\ \A n \in BeanNames :
          (factoryMap[n] # Nil /\ producerCalls[factoryMap[n]] = 1)
          => earlyMap[n] = factoryMap[n]

\* C21 case: a name under construction was looked up a second time after its
\* producer had run (a's reference to itself was filled from tier 2 after b
\* had taken the early reference).
LookedUpAfterMemo ==
    /\ creatingMap["a"]
    /\ earlyMap["a"] # Nil
    /\ producerCalls[earlyMap["a"]] = 1
    /\ heap[earlyMap["a"]].f[1] # Nil
    /\ heap[heap[earlyMap["a"]].f[1]].f[2] = earlyMap["a"]
    /\ heap[earlyMap["a"]].f[2] = earlyMap["a"]

\* The names whose createBean is between createBefore and its deferred
\* createAfter on some caller's stack.
UnderConstruction ==
    {n \in BeanNames :
        \E c \in Callers : \E k \in 1..Len(stack[c]) :
            /\ stack[c][k].name = n
            /\ Deferred(stack[c][k])
            /\ isSingleton(stack[c][k].bt)}

CommitPrecedesRelease ==
    \A c \in Callers : \A k \in 1..Len(stack[c]) :
        LET f == stack[c][k]
        IN  (f.op = "GetBean" /\ isSingleton(f.bt) /\ f.res # Nil)
            => (creatingMap[f.name] \/ singletonMap[f.name] # Nil)

\* C25. AOP wraps at most once per instance: an instance whose early
\* reference was produced through tier 3 has been wrapped exactly once, by the
\* producer, and its own after-initialization step does not wrap it again.
WrappedOnce ==
    /\ \A i \in 1..Len(heap) : wrapCount[i] <= 1
    /\ \A i \in 1..Len(heap) : producerCalls[i] >= 1 => wrapCount[i] = 1

\* C25 case: a Singleton whose early reference was produced through tier 3
\* has finished its own after-initialization step and is committed.
EarlyConsumedCommitted ==
    \E n \in BeanNames :
        /\ singletonMap[n] # Nil
        /\ producerCalls[singletonMap[n]] = 1
        /\ wrapCount[singletonMap[n]] = 1
        /\ n \in earlyProxyReferences

\* C26. AOP wrap tracking is per construction: every instance a GetBean has
\* constructed and returned was wrapped by the AOP stage exactly once,
\* whatever was constructed under the same bean name before.
WrapTrackedPerConstruction ==
    \A c \in Callers :
        (/\ Finished(c, "GetBean")
         /\ result[c].status = "value"
         /\ result[c].val > result[c].base)
        => wrapCount[result[c].val] = 1

\* The injected field the populate step of caller c is about to resolve, and
\* whether the step went on to call GetBean for a target.
PopulatingField(c) ==
    Types[heap[Top(c).inst].type].fields[nextField(heap[Top(c).inst].type, Top(c).fi)]

ResolvedTarget(c) ==
    IF Len(stack'[c]) = Len(stack[c]) + 1
    THEN stack'[c][Len(stack'[c])].name
    ELSE ""

\* C27. Field target resolution order: the populate step calls GetBean for the
\* directive's explicit name when one is given; otherwise for a registered
\* name of the field's type; otherwise for the declared type name, which it
\* registers, so that every injected field gets a target.
FieldTargetResolution ==
    [][\A c \in Callers :
          (/\ c \in active /\ stack[c] # << >> /\ Top(c).pc = "populate"
           /\ nextField(heap[Top(c).inst].type, Top(c).fi) # 0
           /\ PopulatingField(c).di
           /\ stack'[c] # stack[c])
          => IF PopulatingField(c).bean # ""
             THEN ResolvedTarget(c) = PopulatingField(c).bean
             ELSE IF \E n \in BeanNames : tMap[n] = PopulatingField(c).elem
             THEN /\ ResolvedTarget(c) \in BeanNames
                  /\ tMap[ResolvedTarget(c)] = PopulatingField(c).elem
             ELSE /\ ResolvedTarget(c) \in BeanNames
                  /\ tMap'[ResolvedTarget(c)] = PopulatingField(c).elem]_vars

\* C28. An unresolvable dependency is not an error: a populate step whose
\* field names an unregistered target, and a set step whose GetBean returned
\* nothing, leave the field at its zero value and raise no error.
UnresolvedFieldSkipped ==
    [][\A c \in Callers :
          (/\ c \in active /\ stack[c] # << >>
           /\ \/ /\ Top(c).pc = "populate"
                 /\ nextField(heap[Top(c).inst].type, Top(c).fi) # 0
                 /\ PopulatingField(c).di
                 /\ PopulatingField(c).bean \in BeanNames
                 /\ ~isRegistered(PopulatingField(c).bean)
              \/ /\ Top(c).pc = "setField"
                 /\ Top(c).ret = Nil
           /\ stack'[c] # stack[c])
          => /\ result'[c].status \notin PanicKinds
             /\ stack'[c] # << >>
             /\ heap' = heap]_vars

\* C30. GetBean never alters an existing definition: no step of a GetBean
\* call, its recursive resolution included, changes the type or the kind of a
\* registered name or removes it; this revision adds no definition either.
GetBeanKeepsDefinitions ==
    [][\A c \in Callers :
          (/\ stack'[c] # stack[c]
           /\ \/ stack[c] = << >> /\ result'[c].op = "GetBean"
              \/ stack[c] # << >> /\ Top(c).op = "GetBean")
          => /\ tMap' = tMap
             /\ btMap' = btMap
             /\ tMapNil' = tMapNil]_vars

\* C30 case: a GetBean that resolved fields of a through a Prototype b has
\* returned, and both definitions are what Register stored.
ResolvedThroughPrototype ==
    \E c \in Callers :
        /\ Finished(c, "GetBean")
        /\ result[c].name = "a"
        /\ result[c].status = "value"
        /\ result[c].val # Nil
        /\ heap[result[c].val].f[1] # Nil
        /\ btMap["a"] = Singleton /\ tMap["a"] = "A"
        /\ btMap["b"] = Prototype /\ tMap["b"] = "B"

\* A client that registers beans and processors of ClassesShortCircuit.
RegisterShortCircuit(c) == CallRegisterOf(c, ClassesShortCircuit)

RegisterProcessorShortCircuit(c) == RegisterBeanProcessorOf(c, ClassesShortCircuit)

NextShortCircuit ==
    \E c \in Callers :
        \/ RegisterShortCircuit(c)
        \/ CallGetBean(c)
        \/ GetBean(c)
        \/ CreateBean(c)
        \/ PopulateBean(c)
        \/ SetField(c)
        \/ InitializeBean(c)
        \/ AddSingleton(c)
        \/ RegisterProcessorShortCircuit(c)
        \/ AdmitBeanProcessor(c)

SpecShortCircuit == Init /\ [][NextShortCircuit]_vars

\* The chain positions whose before-instantiation hook returns a substitute
\* for beanName.
Substitutors(beanName) ==
    {i \in 1..Len(beanProcessors) :
        /\ beanProcessors[i].kind = "Custom"
        /\ beanName \in Substitutes[heap[beanProcessors[i].inst].type]}

FirstSubstitute(beanName) ==
    beanProcessors[CHOOSE i \in Substitutors(beanName) :
                      \A j \in Substitutors(beanName) : i <= j].inst

\* C24. Before-instantiation short-circuit: a creation call for which some
\* hook returns a substitute allocates nothing, installs no tier-3 producer,
\* resolves no field and runs no after-initialization hook; the substitute is
\* that of the first such processor of the chain, it is what GetBean returns
\* and, for a Singleton, what is committed to tier 1.
ShortCircuit ==
    [][\A c \in Callers :
          (/\ c \in active /\ stack[c] # << >> /\ stack'[c] # stack[c]
           /\ Top(c).op = "GetBean")
          => /\ (/\ Top(c).pc = "createBean"
                 /\ ~createBeforePanics(Top(c).name, Top(c).bt)
                 /\ tMap[Top(c).name] # NoType
                 /\ Substitutors(Top(c).name) # {})
                => /\ heap' = heap
                   /\ factoryMap' = factoryMap
                   /\ earlyMap' = earlyMap
                   /\ hookLog' = hookLog
                   /\ wrapCount' = wrapCount
                   /\ Len(stack'[c]) <= Len(stack[c])
                   /\ IF isSingleton(Top(c).bt)
                      THEN /\ Len(stack'[c]) = Len(stack[c])
                           /\ stack'[c][Len(stack'[c])].pc = "addSingleton"
                           /\ stack'[c][Len(stack'[c])].res =
                                 FirstSubstitute(Top(c).name)
                      ELSE /\ GetBeanReturns(c)
                           /\ ReturnValue(c) = FirstSubstitute(Top(c).name)
             /\ (/\ Top(c).pc = "addSingleton"
                 /\ Top(c).inst = Nil
                 /\ Top(c).res # Nil
                 /\ ~singletonMapNil)
                => /\ GetBeanReturns(c)
                   /\ ReturnValue(c) = Top(c).res
                   /\ singletonMap'[Top(c).name] = Top(c).res
                   /\ heap' = heap
                   /\ hookLog' = hookLog]_vars

\* C24 case: with two substituting processors in the chain, GetBean on the
\* Singleton a has returned and committed the first one's substitute, and no
\* instance of A exists.
ShortCircuited ==
    \E c \in Callers :
        /\ Finished(c, "GetBean")
        /\ result[c].name = "a"
        /\ result[c].status = "value"
        /\ Cardinality({beanProcessors[i].inst : i \in Substitutors("a")}) >= 2
        /\ result[c].val = FirstSubstitute("a")
        /\ singletonMap["a"] = FirstSubstitute("a")
        /\ InstancesOf("A") = {}

\* A client that registers the beans of ClassesAutowire and fetches them.
RegisterAutowire(c) == CallRegisterOf(c, ClassesAutowire)

NextAutowire ==
    \E c \in Callers :
        \/ RegisterAutowire(c)
        \/ CallGetBean(c)
        \/ GetBean(c)
        \/ CreateBean(c)
        \/ PopulateBean(c)
        \/ SetField(c)
        \/ InitializeBean(c)
        \/ AddSingleton(c)

SpecAutowire == Init /\ [][NextAutowire]_vars

\* C29. Type-directed autowiring is deterministic: when several registered
\* definitions match the type of an injected field that names no target, the
\* populate step calls GetBean for the one that was registered first.
AutowireFirstRegistered ==
    [][\A c \in Callers :
          (/\ c \in active /\ stack[c] # << >> /\ Top(c).pc = "populate"
           /\ nextField(heap[Top(c).inst].type, Top(c).fi) # 0
           /\ PopulatingField(c).di
           /\ PopulatingField(c).bean = ""
           /\ Cardinality({n \in BeanNames : tMap[n] = PopulatingField(c).elem}) >= 2
           /\ stack'[c] # stack[c])
          => ResolvedTarget(c) = firstRegistered[PopulatingField(c).elem]]_vars

\* C31. The in-progress check is scoped to the caller's own resolution path:
\* with allowEarlyReference = false, a createBean that fails with
\* CyclicCreationError has the same name under construction further down its
\* own caller's stack; a construction run by another caller does not make it
\* fail.  Checked for names whose type has no injected field, which are on
\* no dependency cycle.
PathScopedCheck ==
    [][\A c \in Callers :
          (/\ c \in active /\ stack[c] # << >>
           /\ Top(c).pc = "createBean"
           /\ ~allowEarlyReference
           /\ isRegistered(Top(c).name)
           /\ nextField(tMap[Top(c).name], 1) = 0
           /\ result[c].status # "CyclicCreationError"
           /\ result'[c].status = "CyclicCreationError")
          => \E k \in 1..(Len(stack[c]) - 1) :
                /\ stack[c][k].name = Top(c).name
                /\ Deferred(stack[c][k])]_vars

\* C32. With allowPopulateStructBean = false a value field of struct type is
\* skipped even when it carries a di tag: no frame waits for or sets such a
\* field, so no target is resolved and no GetBean is called for it, and the
\* field of every instance keeps its zero value.
ValueFieldSkipped ==
    ~allowPopulateStructBean
    => /\ \A i \in 1..Len(heap) : \A k \in 1..Len(Types[heap[i].type].fields) :
              ~Types[heap[i].type].fields[k].ptr => heap[i].f[k] = Nil
       /\ \A c \in Callers : \A j \in 1..Len(stack[c]) :
              stack[c][j].pc \in {"await", "setField"}
              => Types[heap[stack[c][j].inst].type].fields[stack[c][j].fi].ptr

\* C32 case: b was populated and committed after the target x of its value
\* field had been registered and built; the value field is still zero and the
\* reference field is set.
ValueFieldLeftZero ==
    /\ ~allowPopulateStructBean
    /\ singletonMap["x"] # Nil
    /\ singletonMap["b"] # Nil
    /\ singletonMap["x"] < singletonMap["b"]
    /\ heap[singletonMap["b"]].type = "B"
    /\ Types["B"].fields[1].di /\ ~Types["B"].fields[1].ptr
    /\ heap[singletonMap["b"]].f[1] = Nil
    /\ heap[singletonMap["b"]].f[2] # Nil

\* C33. Registry maps stay in step: a bean name has a kind in btMap exactly
\* when it has a type in tMap, so isRegistered and getBeanType agree.
RegistryInStep ==
    \A n \in BeanNames : (btMap[n] # Invalid) <=> (tMap[n] # NoType)

\* The instances reachable from the set S through injected reference fields.
RECURSIVE ReachableFrom(_)
ReachableFrom(S) ==
    LET step == S \cup
                UNION { {heap[i].f[k] : k \in 1..Len(heap[i].f)} : i \in S }
    IN  IF step \ {Nil} = S THEN S ELSE ReachableFrom(step \ {Nil})

\* No call of any caller is in flight.
AtRest == \A c \in Callers : stack[c] = << >>

\* C34. Object-graph closure at rest: with no call in flight, every instance
\* of a Singleton bean reachable through injected reference fields from an
\* instance held in tier 1 is the instance tier 1 holds under its own name.
GraphClosedAtRest ==
    AtRest
    => \A n \in BeanNames :
          singletonMap[n] # Nil
          => \A j \in ReachableFrom({singletonMap[n]}) :
                \A m \in BeanNames :
                   <<Singleton, j>> \in returned[m] => singletonMap[m] = j

\* C34 case: the cycle a <-> b was built and committed, the factory is at
\* rest, and each tier-1 instance reaches the other and itself.
CommittedGraphAtRest ==
    /\ AtRest /\ ~Crashed
    /\ btMap["a"] = Singleton /\ btMap["b"] = Singleton
    /\ singletonMap["a"] # Nil /\ singletonMap["b"] # Nil
    /\ ReachableFrom({singletonMap["b"]}) = {singletonMap["a"], singletonMap["b"]}
    /\ heap[singletonMap["a"]].f[1] = singletonMap["b"]
    /\ heap[singletonMap["a"]].f[2] = singletonMap["a"]

\* The bean names on the resolution path of caller c.
PathNames(c) == {stack[c][k].name : k \in 1..Len(stack[c])}

\* C35. A failed cyclic resolution leaves no residue: the step that ends a
\* top-level GetBean in CyclicCreationError (allowEarlyReference = false)
\* leaves no tier entry for any bean of the failed path and an empty
\* in-progress set, and changes neither the registry nor the tiers nor the
\* processor chain, so the same call meets the state it met the first time.
NoResidueAfterCyclicError ==
    [][\A c \in Callers :
          (/\ ~allowEarlyReference
           /\ stack[c] # << >>
           /\ stack[c][1].op = "GetBean"
           /\ result[c].status # "CyclicCreationError"
           /\ result'[c].status = "CyclicCreationError")
          => /\ stack'[c] = << >>
             /\ \A n \in PathNames(c) :
                   /\ singletonMap'[n] = Nil
                   /\ earlyMap'[n] = Nil
                   /\ factoryMap'[n] = Nil
             /\ \A n \in BeanNames : ~creatingMap'[n]
             /\ UNCHANGED << registryVars, cacheVars, beanProcessors,
                             earlyProxyReferences >>]_vars

\* C35 case: GetBean on the Prototype b ran into the Singleton a twice
\* (b -> a -> b -> a) and ended in CyclicCreationError; three instances were
\* allocated, none is in a tier, and no name is in progress.
FailedPathLeftClean ==
    \E c \in Callers :
        /\ ~allowEarlyReference
        /\ result[c].op = "GetBean" /\ result[c].name = "b"
        /\ result[c].status = "CyclicCreationError"
        /\ btMap["b"] = Prototype /\ btMap["a"] = Singleton
        /\ Len(heap) = result[c].base + 3
        /\ \A n \in BeanNames :
              /\ ~creatingMap[n]
              /\ n \in {"a", "b"} => singletonMap[n] = Nil
              /\ earlyMap[n] = Nil /\ factoryMap[n] = Nil

====
